---- MODULE Spec2Model ----
(***************************************************************************)
(* Model of basic_video_processing.py: main runs three frame pipelines    *)
(* (grayscale, black-and-white, sobel) in sequence over one input video.  *)
(* Each pipeline opens a cv2.VideoCapture, probes it, opens a             *)
(* cv2.VideoWriter, and loops read -> transform -> write until a read     *)
(* fails, then releases both handles.  The OpenCV primitives are          *)
(* operators that compute what the library computes on 8-bit rasters.     *)
(*                                                                         *)
(* Numbers that are floating point in the program (the frame rate) are    *)
(* kept in hundredths: 2997 is 29.97 frames per second.                   *)
(***************************************************************************)
EXTENDS Integers, Sequences, FiniteSets, Bags, TLC

\* ------------------------------------------------------------------ bounds
MaxFrames == 2
FrameW == 3
FrameH == 3

\* ------------------------------------------------------------- the input
Pipelines == <<"grayscale", "black_and_white", "sobel">>
PipelineSet == {Pipelines[i] : i \in 1..Len(Pipelines)}

Black == <<0, 0, 0>>
White == <<255, 255, 255>>
Red == <<0, 0, 255>>

\* A decoded frame: rows x cols pixels, each a tuple of ch channel values
\* (B, G, R order for a colour frame).
\* A raster of rows x cols pixels as a sequence of rows, each a sequence of
\* pixels: px maps <<y, x>> to the pixel there.
Raster(rows, cols, px) ==
    [y \in 1..rows |-> [x \in 1..cols |-> px[<<y, x>>]] \o <<>>] \o <<>>

Coordinates == (1..FrameH) \X (1..FrameW)

MakeFrame(c, px) ==
    [ch |-> c, rows |-> FrameH, cols |-> FrameW, data |-> Raster(FrameH, FrameW, px)]

UniformBlack == MakeFrame(3, [yx \in Coordinates |-> Black])
UniformRed == MakeFrame(3, [yx \in Coordinates |-> Red])
DiagFrame ==
    MakeFrame(3, [yx \in Coordinates |-> <<Black, Red, White>>[((yx[1] + yx[2]) % 3) + 1]])
\* A frame the decoder hands over as a success although it is not a 3-channel
\* colour frame (malformed input): a single-channel raster.
GrayOnlyFrame == MakeFrame(1, [yx \in Coordinates |-> <<7>>])

InputFrames == {UniformBlack, UniformRed, DiagFrame, GrayOnlyFrame}

\* what capture.read() returns for image when it fails
None == [ch |-> 0, rows |-> 0, cols |-> 0, data |-> <<>>]

RECURSIVE SeqsUpTo(_, _)
SeqsUpTo(S, n) ==
    IF n = 0 THEN {<<>>}
    ELSE LET shorter == SeqsUpTo(S, n - 1)
         IN shorter \cup {Append(s, e) : s \in {t \in shorter : Len(t) = n - 1}, e \in S}

FpsValues == {2997, 3000}
Fourccs == {1145656920}

\* The input file: either it cannot be opened, or it is a container with
\* metadata and frames; failAt = k > 0 means the k-th frame cannot be decoded.
Videos ==
    {[openable |-> FALSE, frames |-> <<>>, failAt |-> 0, fps |-> 0,
      fourcc |-> 0, width |-> 0, height |-> 0]}
    \cup
    UNION {{[openable |-> TRUE, frames |-> fs, failAt |-> k, fps |-> r,
             fourcc |-> c, width |-> FrameW, height |-> FrameH] :
                k \in 0..Len(fs), r \in FpsValues, c \in Fourccs} :
           fs \in SeqsUpTo(InputFrames, MaxFrames)}

\* ------------------------------------------------- the library primitives
\* cv2.cvtColor(image, cv2.COLOR_BGR2GRAY) raises cv2.error unless the image
\* is a colour frame.
cvtColor_BGR2GRAY_raises(image) == image.ch # 3

\* 8-bit BGR -> luminance, the library's fixed-point weights (sum 2^15).
Luminance(px) == (px[1] * 3735 + px[2] * 19235 + px[3] * 9798 + 16384) \div 32768

\* (img is the value of image, evaluated once; so in the primitives below)
cvtColor_BGR2GRAY(image) ==
    CHOOSE out \in
        {[img EXCEPT !.ch = 1,
                     !.data = Raster(img.rows, img.cols,
                                     [yx \in (1..img.rows) \X (1..img.cols) |->
                                         <<Luminance(img.data[yx[1]][yx[2]])>>])] :
            img \in {image}} : TRUE

\* faulty variant: the frame is handed on as it is, still single-channel
cvtColor_GRAY2RGB_missing(image) == image

\* cv2.cvtColor(image, cv2.COLOR_GRAY2RGB): the channel replicated three times.
cvtColor_GRAY2RGB(image) ==
    CHOOSE out \in
        {[img EXCEPT !.ch = 3,
                     !.data = Raster(img.rows, img.cols,
                                     [yx \in (1..img.rows) \X (1..img.cols) |->
                                         LET v == img.data[yx[1]][yx[2]][1]
                                         IN <<v, v, v>>])] :
            img \in {image}} : TRUE

GrayValues(image) ==
    {image.data[y][x][1] : y \in 1..image.rows, x \in 1..image.cols}

Pixels(image, S) ==
    {yx \in (1..image.rows) \X (1..image.cols) : image.data[yx[1]][yx[2]][1] \in S}

PixelCount(image, S) == Cardinality(Pixels(image, S))

\* the sum of the grey values of the pixels whose value is in S: the size of
\* the bag holding each such pixel as many times as its value
SumOver(image, S) ==
    BagCardinality([yx \in Pixels(image, S \ {0}) |-> image.data[yx[1]][yx[2]][1]])

\* Otsu's threshold as the library computes it: over the thresholds i whose
\* two classes (values <= i, values > i) are both non-empty, the first i that
\* maximises the between-class variance q1*q2*(mu1-mu2)^2; 0 when there is no
\* such i.  Only grey values that occur can be the first i of a partition, so
\* the candidates are the occurring values.  With n1, n2 the class sizes and
\* s1, s2 the class sums, the variance of i is (s1*n2 - s2*n1)^2 / (N^2*n1*n2).
OtsuThreshold(gray) ==
    LET vals == GrayValues(gray)
        lo(i) == {v \in vals : v <= i}
        hi(i) == {v \in vals : v > i}
        n1(i) == PixelCount(gray, lo(i))
        n2(i) == PixelCount(gray, hi(i))
        num(i) == SumOver(gray, lo(i)) * n2(i) - SumOver(gray, hi(i)) * n1(i)
        cand == {i \in vals : n1(i) > 0 /\ n2(i) > 0}
        a(i) == num(i) * num(i)
        b(i) == n1(i) * n2(i)
        \* a(i)/b(i) > a(j)/b(j), by quotient then remainder (no overflow)
        better(i, j) ==
            \/ a(i) \div b(i) > a(j) \div b(j)
            \/ /\ a(i) \div b(i) = a(j) \div b(j)
               /\ (a(i) % b(i)) * b(j) > (a(j) % b(j)) * b(i)
        best == {i \in cand : \A j \in cand : ~better(j, i)}
    IN IF cand = {} THEN 0
       ELSE CHOOSE i \in best : \A j \in best : i <= j

\* faulty variant: maxval 1 instead of 255 (white written as 1)
threshold_BINARY_OTSU_maxval1(gray) ==
    CHOOSE out \in
        UNION {{[g EXCEPT !.data = Raster(g.rows, g.cols,
                                          [yx \in (1..g.rows) \X (1..g.cols) |->
                                              <<IF g.data[yx[1]][yx[2]][1] > t
                                                THEN 1 ELSE 0>>])] :
                  t \in {OtsuThreshold(g)}} :
               g \in {gray}} : TRUE

\* cv2.threshold(gray, 0, 255, THRESH_BINARY + THRESH_OTSU)[1]
threshold_BINARY_OTSU(gray) ==
    CHOOSE out \in
        UNION {{[g EXCEPT !.data = Raster(g.rows, g.cols,
                                          [yx \in (1..g.rows) \X (1..g.cols) |->
                                              <<IF g.data[yx[1]][yx[2]][1] > t
                                                THEN 255 ELSE 0>>])] :
                  t \in {OtsuThreshold(g)}} :
               g \in {gray}} : TRUE

\* cv::borderInterpolate for BORDER_REFLECT_101, on 0-based coordinates: the
\* coordinate reflected about the first and the last pixel until it is inside,
\* which is the position in the period 0, 1, .., len-1, len-2, .., 1.
borderInterpolate(p, len) ==
    IF len = 1 THEN 0
    ELSE LET period == 2 * len - 2
             q == p % period
         IN IF q < len THEN q ELSE period - q

saturate_cast_uchar(v) == IF v < 0 THEN 0 ELSE IF v > 255 THEN 255 ELSE v

\* the 5-tap first-derivative kernel (-1, -2, 0, 2, 1) on the values two
\* before, one before, one after and two after a position
Derivative5(m2, m1, p1, p2) == 2 * p1 + p2 - m2 - 2 * m1

\* cv2.Sobel(gray, ddepth=-1, dx=1, dy=1, ksize=5): the separable derivative
\* kernel along the rows, then along the columns, on the image extended by
\* its reflected border, saturated to 8 bits.
Sobel(gray) ==
    CHOOSE out \in
        {LET at(y, x) == g.data[borderInterpolate(y - 1, g.rows) + 1]
                               [borderInterpolate(x - 1, g.cols) + 1][1]
             row(y, x) == Derivative5(at(y, x - 2), at(y, x - 1),
                                      at(y, x + 1), at(y, x + 2))
         IN [g EXCEPT !.data = Raster(g.rows, g.cols,
                [yx \in (1..g.rows) \X (1..g.cols) |->
                    <<saturate_cast_uchar(
                        Derivative5(row(yx[1] - 2, yx[2]), row(yx[1] - 1, yx[2]),
                                    row(yx[1] + 1, yx[2]), row(yx[1] + 2, yx[2])))>>])] :
            g \in {gray}} : TRUE

\* ------------------------------------------------------------- the state
VARIABLES
    video,        \* the input file at INPUT_VIDEO
    writable,     \* whether the working directory takes the output files
    stage,        \* main: the pipeline being run, "done" or "aborted"
    status,       \* per pipeline: "notrun", "running", "returned", "raised"
    calls,        \* per pipeline: how many times main called it
    pc,           \* position inside the running pipeline function
    capture,      \* per pipeline: its cv2.VideoCapture
    capture_info, \* local: the probed parameters
    new_video,    \* per pipeline: its cv2.VideoWriter
    success,      \* local
    image,        \* local
    new_frame,    \* local: the transformed frame about to be written
    count         \* local

vars == <<video, writable, stage, status, calls, pc, capture, capture_info, new_video,
          success, image, new_frame, count>>

NoCapture == [state |-> "none", opened |-> FALSE, pos |-> 0, reads |-> 0]
NoWriter == [state |-> "none", opened |-> FALSE, fourcc |-> 0, fps |-> 0,
             width |-> 0, height |-> 0, isColor |-> TRUE,
             written |-> <<>>, stored |-> <<>>]
NoInfo == [fourcc |-> 0, fps |-> 0, height |-> 0, width |-> 0]

Init ==
    /\ video \in Videos
    /\ writable \in BOOLEAN
    /\ stage = Pipelines[1]
    /\ status = [p \in PipelineSet |-> "notrun"]
    /\ calls = [p \in PipelineSet |-> 0]
    /\ pc = "idle"
    /\ capture = [p \in PipelineSet |-> NoCapture]
    /\ capture_info = NoInfo
    /\ new_video = [p \in PipelineSet |-> NoWriter]
    /\ success = FALSE
    /\ image = None
    /\ new_frame = None
    /\ count = 0

\* --------------------------------------------------- capture and writer
\* cv2.VideoCapture(path): never raises; the object is unopened when the file
\* cannot be opened.
VideoCapture(v) ==
    [state |-> "held", opened |-> v.openable, pos |-> 0, reads |-> 0]

\* capture.get(prop): 0 for every property of an unopened capture.
VideoCapture_get(c, prop) ==
    IF ~c.opened THEN 0
    ELSE CASE prop = "FOURCC" -> video.fourcc
           [] prop = "FPS" -> video.fps
           [] prop = "FRAME_HEIGHT" -> video.height
           [] prop = "FRAME_WIDTH" -> video.width

\* faulty variant: every read grabs twice, so that every other frame is skipped
VideoCapture_read_grabs_twice(c) ==
    LET k == c.pos + 2
        ok == c.opened /\ k <= Len(video.frames) /\ k # video.failAt
    IN IF ok
       THEN <<TRUE, video.frames[k], [c EXCEPT !.pos = k, !.reads = @ + 1]>>
       ELSE <<FALSE, None, [c EXCEPT !.reads = @ + 1]>>

\* faulty variant: a frame that cannot be decoded is skipped and the next one returned
VideoCapture_read_skips_undecodable(c) ==
    LET n == c.pos + 1
        k == IF n = video.failAt THEN n + 1 ELSE n
        ok == c.opened /\ k <= Len(video.frames)
    IN IF ok
       THEN <<TRUE, video.frames[k], [c EXCEPT !.pos = k, !.reads = @ + 1]>>
       ELSE <<FALSE, None, [c EXCEPT !.reads = @ + 1]>>

\* capture.read(): <<success, image, capture afterwards>>.  It fails on an
\* unopened capture, at the end of the stream, and on a frame that cannot be
\* decoded.
VideoCapture_read(c) ==
    LET k == c.pos + 1
        ok == c.opened /\ k <= Len(video.frames) /\ k # video.failAt
    IN IF ok
       THEN <<TRUE, video.frames[k], [c EXCEPT !.pos = k, !.reads = @ + 1]>>
       ELSE <<FALSE, None, [c EXCEPT !.reads = @ + 1]>>

\* int(x) of a non-negative float kept in hundredths: truncation
int(x) == (x \div 100) * 100

\* The codec tag, the height and the width are whole numbers, which int()
\* leaves as they are; the frame rate is truncated.
get_video_parameters(c) ==
    [fourcc |-> VideoCapture_get(c, "FOURCC"),
     fps |-> int(VideoCapture_get(c, "FPS")),
     height |-> VideoCapture_get(c, "FRAME_HEIGHT"),
     width |-> VideoCapture_get(c, "FRAME_WIDTH")]

\* the capture_info dict of the other two pipelines ("codec" is held in the
\* fourcc field; "framecount" is never used): the frame rate is passed on as
\* the float it is
inline_capture_info(c) ==
    [fourcc |-> VideoCapture_get(c, "FOURCC"),
     fps |-> VideoCapture_get(c, "FPS"),
     height |-> VideoCapture_get(c, "FRAME_HEIGHT"),
     width |-> VideoCapture_get(c, "FRAME_WIDTH")]

\* cv2.VideoWriter(path, fourcc, fps, (width, height)[, isColor]): never
\* raises; the writer is opened when the path is writable and the encoder
\* accepts the frame size and rate.
VideoWriter(canWrite, fourcc, fps, width, height, isColor) ==
    [state |-> "held",
     opened |-> canWrite /\ width > 0 /\ height > 0 /\ fps > 0,
     fourcc |-> fourcc, fps |-> fps, width |-> width, height |-> height,
     isColor |-> isColor, written |-> <<>>, stored |-> <<>>]

\* new_video.write(frame): the call is logged in written; the frame reaches
\* the file only when the writer is opened and the frame has its layout.
VideoWriter_write(w, frame) ==
    [w EXCEPT !.written = Append(@, frame),
              !.stored = IF /\ w.opened
                            /\ frame.cols = w.width /\ frame.rows = w.height
                            /\ frame.ch = (IF w.isColor THEN 3 ELSE 1)
                         THEN Append(@, frame) ELSE @]

release(h) == [h EXCEPT !.state = "released"]

\* -------------------------------------------------------- the pipelines
\* the per-frame transform of each pipeline (lines 64, 114-116, 166-168)
Transform(p, frame) ==
    CASE p = "grayscale" -> cvtColor_BGR2GRAY(frame)
      [] p = "black_and_white" ->
            cvtColor_GRAY2RGB(threshold_BINARY_OTSU(cvtColor_BGR2GRAY(frame)))
      [] p = "sobel" -> cvtColor_GRAY2RGB(Sobel(cvtColor_BGR2GRAY(frame)))

TransformRaises(p, frame) == cvtColor_BGR2GRAY_raises(frame)

probe(p, c) ==
    IF p = "grayscale" THEN get_video_parameters(c) ELSE inline_capture_info(c)

\* grayscale passes isColor = 0; the other two leave the default (colour)
isColorArg(p) == p # "grayscale"

\* faulty variant: the loop body runs whatever the read returned
LoopCondition_always(s) == TRUE

\* while success:
LoopCondition(s) == s

NextStage(p) ==
    CASE p = "grayscale" -> "black_and_white"
      [] p = "black_and_white" -> "sobel"
      [] p = "sobel" -> "done"

\* capture = cv2.VideoCapture(input_video_path)
OpenCapture(p) ==
    /\ stage = p /\ pc = "idle"
    /\ status' = [status EXCEPT ![p] = "running"]
    /\ calls' = [calls EXCEPT ![p] = @ + 1]
    /\ capture' = [capture EXCEPT ![p] = VideoCapture(video)]
    /\ capture_info' = NoInfo
    /\ success' = FALSE /\ image' = None /\ new_frame' = None /\ count' = 0
    /\ pc' = "probe"
    /\ UNCHANGED <<video, writable, stage, new_video>>

\* capture_info = ...
Probe(p) ==
    /\ stage = p /\ pc = "probe"
    /\ capture_info' = probe(p, capture[p])
    /\ pc' = "open_writer"
    /\ UNCHANGED <<video, writable, stage, status, calls, capture, new_video, success,
                   image, new_frame, count>>

\* new_video = cv2.VideoWriter(...)
OpenWriter(p) ==
    /\ stage = p /\ pc = "open_writer"
    /\ new_video' = [new_video EXCEPT ![p] =
          VideoWriter(writable, capture_info.fourcc, capture_info.fps,
                      capture_info.width, capture_info.height, isColorArg(p))]
    /\ pc' = "first_read"
    /\ UNCHANGED <<video, writable, stage, status, calls, capture, capture_info, success,
                   image, new_frame, count>>

\* success, image = capture.read(); count = 0
FirstRead(p) ==
    /\ stage = p /\ pc = "first_read"
    /\ LET r == VideoCapture_read(capture[p])
       IN /\ success' = r[1]
          /\ image' = r[2]
          /\ capture' = [capture EXCEPT ![p] = r[3]]
    /\ count' = 0
    /\ pc' = "while"
    /\ UNCHANGED <<video, writable, stage, status, calls, capture_info, new_video, new_frame>>

\* while success:
WhileTest(p) ==
    /\ stage = p /\ pc = "while"
    /\ pc' = IF LoopCondition(success) THEN "transform" ELSE "release_capture"
    /\ UNCHANGED <<video, writable, stage, status, calls, capture, capture_info, new_video,
                   success, image, new_frame, count>>

\* the transform of the frame; an error it raises propagates out of the
\* pipeline and out of main, which catches nothing
TransformFrame(p) ==
    /\ stage = p /\ pc = "transform"
    /\ IF TransformRaises(p, image)
       THEN /\ pc' = "raised"
            /\ status' = [status EXCEPT ![p] = "raised"]
            /\ stage' = "aborted"
            /\ UNCHANGED new_frame
       ELSE /\ new_frame' = Transform(p, image)
            /\ pc' = "write"
            /\ UNCHANGED <<status, stage>>
    /\ UNCHANGED <<video, writable, calls, capture, capture_info, new_video, success,
                   image, count>>

\* new_video.write(frame)
WriteFrame(p) ==
    /\ stage = p /\ pc = "write"
    /\ new_video' = [new_video EXCEPT ![p] = VideoWriter_write(@, new_frame)]
    /\ pc' = "loop_read"
    /\ UNCHANGED <<video, writable, stage, status, calls, capture, capture_info, success,
                   image, new_frame, count>>

\* success, image = capture.read(); count += 1
LoopRead(p) ==
    /\ stage = p /\ pc = "loop_read"
    /\ LET r == VideoCapture_read(capture[p])
       IN /\ success' = r[1]
          /\ image' = r[2]
          /\ capture' = [capture EXCEPT ![p] = r[3]]
    /\ count' = count + 1
    /\ pc' = "while"
    /\ UNCHANGED <<video, writable, stage, status, calls, capture_info, new_video, new_frame>>

\* capture.release()
ReleaseCapture(p) ==
    /\ stage = p /\ pc = "release_capture"
    /\ capture' = [capture EXCEPT ![p] = release(@)]
    /\ pc' = "release_writer"
    /\ UNCHANGED <<video, writable, stage, status, calls, capture_info, new_video, success,
                   image, new_frame, count>>

\* new_video.release()
ReleaseWriter(p) ==
    /\ stage = p /\ pc = "release_writer"
    /\ new_video' = [new_video EXCEPT ![p] = release(@)]
    /\ pc' = "destroy"
    /\ UNCHANGED <<video, writable, stage, status, calls, capture, capture_info, success,
                   image, new_frame, count>>

\* cv2.destroyAllWindows(), and the return to main, which calls the next
\* pipeline or returns
Return(p) ==
    /\ stage = p /\ pc = "destroy"
    /\ status' = [status EXCEPT ![p] = "returned"]
    /\ stage' = NextStage(p)
    /\ pc' = "idle"
    /\ UNCHANGED <<video, writable, calls, capture, capture_info, new_video, success,
                   image, new_frame, count>>

Pipeline(p) ==
    \/ OpenCapture(p)
    \/ Probe(p)
    \/ OpenWriter(p)
    \/ FirstRead(p)
    \/ WhileTest(p)
    \/ TransformFrame(p)
    \/ WriteFrame(p)
    \/ LoopRead(p)
    \/ ReleaseCapture(p)
    \/ ReleaseWriter(p)
    \/ Return(p)

convert_video_to_grayscale == Pipeline("grayscale")
convert_video_to_black_and_white == Pipeline("black_and_white")
convert_video_to_sobel == Pipeline("sobel")

main ==
    \/ convert_video_to_grayscale
    \/ convert_video_to_black_and_white
    \/ convert_video_to_sobel

Next == main

Spec == Init /\ [][Next]_vars

\* ------------------------------------------------------------ the claims
Terminated(p) == status[p] \in {"returned", "raised"}
Closed(p) == capture[p].state = "released" /\ new_video[p].state = "released"
AllColour == \A i \in 1..Len(video.frames) : video.frames[i].ch = 3

\* what a pipeline writes for the first n frames of the input
ExpectedOutput(p, n) ==
    [i \in 1..n |-> IF TransformRaises(p, video.frames[i]) THEN None
                    ELSE Transform(p, video.frames[i])] \o <<>>

\* the number of the read that fails: the first one on an unopened capture,
\* the undecodable frame, or the one after the last frame
FailingRead ==
    IF ~video.openable THEN 1
    ELSE IF video.failAt > 0 THEN video.failAt
    ELSE Len(video.frames) + 1

PixelValues(frame) ==
    {frame.data[y][x][c] : y \in 1..frame.rows, x \in 1..frame.cols, c \in 1..frame.ch}

C2_ReleasedOnEveryExit ==
    \A p \in PipelineSet :
        Terminated(p) => capture[p].state # "held" /\ new_video[p].state # "held"

\* C3: main ends normally only when every pipeline opened its input and its
\* sink; a failure to open either does not let the run complete normally.
C3_OpenFailureIsFatal ==
    stage = "done" =>
        \A p \in PipelineSet : capture[p].opened /\ new_video[p].opened

\* C4: once the k-th read has failed (end of stream, undecodable frame or
\* unopened capture), no further read is made, the frames written are the
\* transforms of the k-1 frames before it, nothing was raised, the pipeline
\* is on its way to the releases, and when it has returned both handles are
\* released: the outcome of a (k-1)-frame stream.
C4_ReadFailureEndsStream ==
    \A p \in PipelineSet :
        /\ capture[p].reads >= FailingRead =>
              /\ capture[p].reads = FailingRead
              /\ capture[p].pos = FailingRead - 1
              /\ new_video[p].written = ExpectedOutput(p, FailingRead - 1)
              /\ status[p] # "raised"
              /\ stage = p =>
                    pc \in {"while", "release_capture", "release_writer", "destroy"}
        /\ status[p] = "returned" =>
              capture[p].reads = FailingRead /\ Closed(p)

C4_Witness ==
    /\ video.failAt = 2
    /\ Len(video.frames) >= 2
    /\ status["sobel"] = "returned"
    /\ capture["sobel"].reads = 2
    /\ Len(new_video["sobel"].written) = 1

\* C5: every sink is created with the input's codec, frame rate, width and
\* height.
C5_SinkDeclaresInputMetadata ==
    \A p \in PipelineSet :
        (capture[p].opened /\ new_video[p].state # "none") =>
            /\ new_video[p].fourcc = video.fourcc
            /\ new_video[p].fps = video.fps
            /\ new_video[p].width = video.width
            /\ new_video[p].height = video.height

\* C6: on a zero-frame input no pipeline writes or raises; the first read
\* fails with the sink already created, and a pipeline that has returned made
\* that one read, opened its sink (the directory permitting) with the input's
\* size, and released both handles, the output holding no frame.
C6_ZeroFrameInput ==
    (video.openable /\ Len(video.frames) = 0) =>
        \A p \in PipelineSet :
            /\ new_video[p].written = <<>>
            /\ new_video[p].stored = <<>>
            /\ status[p] # "raised"
            /\ capture[p].reads >= 1 => new_video[p].state # "none"
            /\ status[p] = "returned" =>
                  /\ capture[p].reads = 1
                  /\ Closed(p)
                  /\ new_video[p].opened = writable
                  /\ new_video[p].width = video.width
                  /\ new_video[p].height = video.height

C6_Witness ==
    /\ video.openable /\ Len(video.frames) = 0
    /\ stage = "done"
    /\ \A p \in PipelineSet : status[p] = "returned" /\ new_video[p].opened

\* C7: the grayscale sink is single-channel and the other two are 3-channel;
\* every frame written has the sink's channel count, width and height, and
\* in a 3-channel frame the three values of every pixel are equal.
C7_FramesMatchSink ==
    \A p \in PipelineSet :
        new_video[p].state # "none" =>
            /\ new_video[p].isColor = (p # "grayscale")
            /\ \A i \in 1..Len(new_video[p].written) :
                  LET f == new_video[p].written[i]
                  IN /\ f.ch = (IF p = "grayscale" THEN 1 ELSE 3)
                     /\ f.cols = new_video[p].width
                     /\ f.rows = new_video[p].height
                     /\ Len(f.data) = f.rows
                     /\ \A y \in 1..f.rows :
                           /\ Len(f.data[y]) = f.cols
                           /\ \A x \in 1..f.cols :
                                 /\ Len(f.data[y][x]) = f.ch
                                 /\ \A c \in 1..f.ch : f.data[y][x][c] = f.data[y][x][1]

C7_Witness ==
    /\ stage = "done"
    /\ \A p \in PipelineSet : Len(new_video[p].written) >= 2 /\ new_video[p].opened
    /\ PixelValues(new_video["sobel"].written[1]) = {0, 255}

C9_Lifecycle ==
    \A p \in PipelineSet :
        /\ new_video[p].state # "none" => capture[p].state # "none"
        /\ Len(new_video[p].written) <= capture[p].pos
        /\ (capture[p].state = "released" /\ stage = p) =>
              pc \in {"release_writer", "destroy"}
        /\ Terminated(p) =>
              /\ capture[p].reads = capture[p].pos + 1
              /\ Closed(p)

\* C10: the pipelines run once each, in order, each from the first frame,
\* one after the other has released its handles, so that at most one capture
\* and one sink are held at a time, and no pipeline that control has left
\* holds a handle.
C10_SequentialIsolated ==
    /\ \A p \in PipelineSet : calls[p] <= 1
    /\ stage = "done" => \A p \in PipelineSet : calls[p] = 1
    /\ \A i, j \in 1..Len(Pipelines) :
          (i < j /\ status[Pipelines[j]] # "notrun") =>
              status[Pipelines[i]] = "returned" /\ Closed(Pipelines[i])
    /\ Cardinality({p \in PipelineSet : capture[p].state = "held"}) <= 1
    /\ Cardinality({p \in PipelineSet : new_video[p].state = "held"}) <= 1
    /\ \A p \in PipelineSet :
          /\ capture[p].pos <= capture[p].reads
          /\ capture[p].reads <= capture[p].pos + 1
          /\ capture[p].reads >= 1 =>
                capture[p].pos >= (IF FailingRead = 1 THEN 0 ELSE 1)
    /\ \A p \in PipelineSet :
          Terminated(p) =>
              capture[p].state # "held" /\ new_video[p].state # "held"

====
